---- MODULE Spec2Model ----
(***************************************************************************)
(* Model of src/reader.rs of cryptotax: the currency-scoped leg filter     *)
(* (read_exchanges, read_exchanges_in_currency), the pairing fold          *)
(* (to_transactions) and the leg classifier (Row::to_transaction).         *)
(*                                                                         *)
(* Decimals are integers (the code only adds them).  Dates are positive    *)
(* integers ordered as the timestamp strings are, and 0 stands for the     *)
(* empty string.  An Option is a sequence of length 0 or 1.                *)
(*                                                                         *)
(* Four specifications share the actions and differ in the inputs:         *)
(*   Spec       ledgers of up to MaxLen legs, Exchange or not;             *)
(*   SpecDated  ledgers of up to MaxLen Exchange legs, any dates that are  *)
(*              newest-first;                                              *)
(*   SpecPair   every pair of Exchange legs over the currencies,           *)
(*              descriptions, dates, amounts and fees;                     *)
(*   SpecLedger ledgers of up to MaxExchanges well-formed exchanges.       *)
(***************************************************************************)
EXTENDS Integers, Sequences, FiniteSets, TLC

VARIABLES currency, parsed, reader, rows, pc, i, acc, prev, txns

vars == <<currency, parsed, reader, rows, pc, i, acc, prev, txns>>

(***************************************************************************)
(* Bounds of the inputs.                                                   *)
(***************************************************************************)
MaxLen == 4
MaxDate == 2
MaxAmount == 2
MaxFee == 1
MaxExchanges == 2

(***************************************************************************)
(* Strings.  A string is a TLA+ string; Chars gives its characters, so     *)
(* that str::contains is a real substring search.                          *)
(***************************************************************************)
\* Every string the model uses.
Strings ==
    {"", "Exchanged from", "Exchanged to",
     "Vault", "SEK", "DOGE",
     "EOS", "Exchanged from SEK", "Exchanged from DOGE",
     "Exchanged from EOS", "Exchanged to SEK", "Exchanged to DOGE",
     "Exchanged to EOS", "Exchanged to DOGE DOGE Vault", "To DOGE wallet"}

\* The characters of each string.
CharTable ==
    [s \in Strings |->
        CASE s = "" -> <<>>
          [] s = "Exchanged from" -> <<"E", "x", "c", "h", "a", "n", "g", "e", "d", " ", "f", "r", "o", "m">>
          [] s = "Exchanged to" -> <<"E", "x", "c", "h", "a", "n", "g", "e", "d", " ", "t", "o">>
          [] s = "Vault" -> <<"V", "a", "u", "l", "t">>
          [] s = "SEK" -> <<"S", "E", "K">>
          [] s = "DOGE" -> <<"D", "O", "G", "E">>
          [] s = "EOS" -> <<"E", "O", "S">>
          [] s = "Exchanged from SEK" -> <<"E", "x", "c", "h", "a", "n", "g", "e", "d", " ", "f", "r", "o", "m", " ", "S", "E", "K">>
          [] s = "Exchanged from DOGE" -> <<"E", "x", "c", "h", "a", "n", "g", "e", "d", " ", "f", "r", "o", "m", " ", "D", "O", "G", "E">>
          [] s = "Exchanged from EOS" -> <<"E", "x", "c", "h", "a", "n", "g", "e", "d", " ", "f", "r", "o", "m", " ", "E", "O", "S">>
          [] s = "Exchanged to SEK" -> <<"E", "x", "c", "h", "a", "n", "g", "e", "d", " ", "t", "o", " ", "S", "E", "K">>
          [] s = "Exchanged to DOGE" -> <<"E", "x", "c", "h", "a", "n", "g", "e", "d", " ", "t", "o", " ", "D", "O", "G", "E">>
          [] s = "Exchanged to EOS" -> <<"E", "x", "c", "h", "a", "n", "g", "e", "d", " ", "t", "o", " ", "E", "O", "S">>
          [] s = "Exchanged to DOGE DOGE Vault" -> <<"E", "x", "c", "h", "a", "n", "g", "e", "d", " ", "t", "o", " ", "D", "O", "G", "E", " ", "D", "O", "G", "E", " ", "V", "a", "u", "l", "t">>
          [] s = "To DOGE wallet" -> <<"T", "o", " ", "D", "O", "G", "E", " ", "w", "a", "l", "l", "e", "t">>]

Chars(s) == CharTable[s]

Currencies == {"SEK", "DOGE", "EOS"}

\* format!("Exchanged from {c}") and format!("Exchanged to {c}") of the ledger.
ExchangedFromDesc(c) ==
    CASE c = "SEK" -> "Exchanged from SEK"
      [] c = "DOGE" -> "Exchanged from DOGE"
      [] c = "EOS" -> "Exchanged from EOS"

ExchangedToDesc(c) ==
    CASE c = "SEK" -> "Exchanged to SEK"
      [] c = "DOGE" -> "Exchanged to DOGE"
      [] c = "EOS" -> "Exchanged to EOS"

\* The sequence n occurs in the sequence h as a contiguous block.
Occurs(h, n) ==
    \E k \in 0..(Len(h) - Len(n)) : \A m \in 1..Len(n) : h[k + m] = n[m]

\* The substring relation over the model's strings, computed once.
ContainsTable ==
    [hay \in Strings |-> {needle \in Strings : Occurs(Chars(hay), Chars(needle))}]

\* str::contains: needle occurs in hay as a contiguous substring.
Contains(hay, needle) == needle \in ContainsTable[hay]

(***************************************************************************)
(* Transaction::new(): the accumulator before any rule has written to it.  *)
(* Its body is in crate::transaction; the values are the empty ones, and   *)
(* the type is one of the two the enumeration has (no property below       *)
(* depends on which).                                                      *)
(***************************************************************************)
TransactionNew ==
    [type |-> "Buy", paid_currency |-> "", paid_amount |-> 0,
     exchanged_currency |-> "", exchanged_amount |-> 0,
     date |-> 0, is_vault |-> FALSE]

(***************************************************************************)
(* Row::to_transaction: five independent `if` statements, in this order.   *)
(***************************************************************************)
Rule1Matches(self, cur) ==
    self.currency = cur /\ Contains(self.description, "Exchanged from")

Rule2Matches(self, cur) ==
    self.currency = cur /\ Contains(self.description, "Exchanged to")

Rule3Matches(self, cur) ==
    Contains(self.description, "Exchanged from") /\ Contains(self.description, cur)

Rule4Matches(self, cur) ==
    Contains(self.description, "Exchanged to") /\ Contains(self.description, cur)

\* Rule 1 without the write of the date.
Rule1NoDate(self, txn, cur) ==
    IF Rule1Matches(self, cur)
    THEN [txn EXCEPT !.type = "Buy",
                     !.paid_amount = self.amount + self.fee,
                     !.paid_currency = cur]
    ELSE txn

Rule1(self, txn, cur) ==
    IF Rule1Matches(self, cur)
    THEN [txn EXCEPT !.type = "Buy",
                     !.paid_amount = self.amount + self.fee,
                     !.paid_currency = cur,
                     !.date = self.started_date]
    ELSE txn

\* Rule 2 with the fee left out of the amount.
Rule2NoFee(self, txn, cur) ==
    IF Rule2Matches(self, cur)
    THEN [txn EXCEPT !.type = "Sell",
                     !.paid_amount = self.amount,
                     !.paid_currency = cur,
                     !.date = self.started_date]
    ELSE txn

Rule2(self, txn, cur) ==
    IF Rule2Matches(self, cur)
    THEN [txn EXCEPT !.type = "Sell",
                     !.paid_amount = self.amount + self.fee,
                     !.paid_currency = cur,
                     !.date = self.started_date]
    ELSE txn

\* Rule 3 with the type of rule 4.
Rule3Swapped(self, txn, cur) ==
    IF Rule3Matches(self, cur)
    THEN [txn EXCEPT !.type = "Buy",
                     !.exchanged_amount = self.amount + self.fee,
                     !.exchanged_currency = self.currency]
    ELSE txn

Rule3(self, txn, cur) ==
    IF Rule3Matches(self, cur)
    THEN [txn EXCEPT !.type = "Sell",
                     !.exchanged_amount = self.amount + self.fee,
                     !.exchanged_currency = self.currency]
    ELSE txn

\* Rule 4 with the type of rule 3.
Rule4Swapped(self, txn, cur) ==
    IF Rule4Matches(self, cur)
    THEN [txn EXCEPT !.type = "Sell",
                     !.exchanged_amount = self.amount + self.fee,
                     !.exchanged_currency = self.currency]
    ELSE txn

Rule4(self, txn, cur) ==
    IF Rule4Matches(self, cur)
    THEN [txn EXCEPT !.type = "Buy",
                     !.exchanged_amount = self.amount + self.fee,
                     !.exchanged_currency = self.currency]
    ELSE txn

VaultRule(self, txn) ==
    IF Contains(self.description, "Vault")
    THEN [txn EXCEPT !.is_vault = TRUE]
    ELSE txn

\* The four classification `if` statements, executed one after the other.
ApplyRules(self, txn, cur) ==
    Rule4(self, Rule3(self, Rule2(self, Rule1(self, txn, cur), cur), cur), cur)

\* An else-if chain: only the first matching rule is applied.
to_transaction_first_match(self, txn, cur) ==
    LET t0 == IF txn = <<>> THEN TransactionNew ELSE txn[1]
        t1 == IF Rule1Matches(self, cur) THEN Rule1(self, t0, cur)
              ELSE IF Rule2Matches(self, cur) THEN Rule2(self, t0, cur)
              ELSE IF Rule3Matches(self, cur) THEN Rule3(self, t0, cur)
              ELSE Rule4(self, t0, cur)
    IN  VaultRule(self, t1)

\* txn is an Option<Transaction>: <<>> for None, <<t>> for Some(t).
to_transaction(self, txn, cur) ==
    LET t0 == IF txn = <<>> THEN TransactionNew ELSE txn[1]
    IN  VaultRule(self, ApplyRules(self, t0, cur))

(***************************************************************************)
(* to_transactions: rows.iter().rev().fold((vec![], None), closure).       *)
(***************************************************************************)
\* The iteration without the reversal.
RevNthForward(rs, k) == rs[k + 1]

\* The k-th element (k from 0) that rows.iter().rev() yields.
RevNth(rs, k) == rs[Len(rs) - k]

\* The closure keeping the current leg pending after a pair (a sliding window).
FoldStepSliding(st, row, cur) ==
    IF st.prev = <<>>
    THEN [acc |-> st.acc, prev |-> <<row>>]
    ELSE LET txn1 == to_transaction(st.prev[1], <<>>, cur)
             txn2 == to_transaction(row, <<txn1>>, cur)
         IN  [acc |-> Append(st.acc, txn2), prev |-> <<row>>]

\* The closure starting a pair from the previous pair's Transaction.
FoldStepLeaky(st, row, cur) ==
    IF st.prev = <<>>
    THEN [acc |-> st.acc, prev |-> <<row>>]
    ELSE LET last == IF st.acc = <<>> THEN <<>> ELSE <<st.acc[Len(st.acc)]>>
             txn1 == to_transaction(st.prev[1], last, cur)
             txn2 == to_transaction(row, <<txn1>>, cur)
         IN  [acc |-> Append(st.acc, txn2), prev |-> <<>>]

\* The closure inserting the Transaction at the front of the output.
FoldStepPrepend(st, row, cur) ==
    IF st.prev = <<>>
    THEN [acc |-> st.acc, prev |-> <<row>>]
    ELSE LET txn1 == to_transaction(st.prev[1], <<>>, cur)
             txn2 == to_transaction(row, <<txn1>>, cur)
         IN  [acc |-> <<txn2>> \o st.acc, prev |-> <<>>]

\* The fold's closure: state is (acc, prev), prev an Option<&Row>.
FoldStep(st, row, cur) ==
    IF st.prev = <<>>
    THEN [acc |-> st.acc, prev |-> <<row>>]
    ELSE LET txn1 == to_transaction(st.prev[1], <<>>, cur)
             txn2 == to_transaction(row, <<txn1>>, cur)
         IN  [acc |-> Append(st.acc, txn2), prev |-> <<>>]

\* What the fold returns as `txns`: the first component, the second is discarded.
FoldResult(st) == st.acc

RECURSIVE FoldFrom(_, _, _, _)
FoldFrom(st, rs, k, cur) ==
    IF k >= Len(rs) THEN st
    ELSE FoldFrom(FoldStep(st, RevNth(rs, k), cur), rs, k + 1, cur)

to_transactions(rs, cur) ==
    FoldResult(FoldFrom([acc |-> <<>>, prev |-> <<>>], rs, 0, cur))

(***************************************************************************)
(* read_exchanges / read_exchanges_in_currency: iterator filters.          *)
(***************************************************************************)
IsExchange(t) == t.type = "Exchange"

\* The currency test without the description.
InCurrencyExact(t, cur) == t.currency = cur

InCurrency(t, cur) == t.currency = cur \/ Contains(t.description, cur)

RECURSIVE FilterExchange(_)
FilterExchange(rs) ==
    IF rs = <<>> THEN <<>>
    ELSE IF IsExchange(Head(rs)) THEN <<Head(rs)>> \o FilterExchange(Tail(rs))
         ELSE FilterExchange(Tail(rs))

RECURSIVE FilterInCurrency(_, _)
FilterInCurrency(rs, cur) ==
    IF rs = <<>> THEN <<>>
    ELSE IF InCurrency(Head(rs), cur) THEN <<Head(rs)>> \o FilterInCurrency(Tail(rs), cur)
         ELSE FilterInCurrency(Tail(rs), cur)

read_exchanges(rs) == FilterExchange(rs)

read_exchanges_in_currency(rs, cur) == FilterInCurrency(FilterExchange(rs), cur)

(***************************************************************************)
(* Inputs.                                                                 *)
(***************************************************************************)
Row(ty, date, desc, amount, fee, cur) ==
    [type |-> ty, started_date |-> date, description |-> desc,
     amount |-> amount, fee |-> fee, currency |-> cur]

Dates == 1..MaxDate
Amounts == {-MaxAmount, MaxAmount}
Fees == {-MaxFee, 0}

Descriptions ==
    {ExchangedFromDesc(c) : c \in Currencies}
    \cup {ExchangedToDesc(c) : c \in Currencies}
    \cup {"Exchanged to DOGE DOGE Vault"}

\* Leg shapes of the fixture of test::should_parse_to_transactions; the date
\* is set per position.
ExchangeLegShapes ==
    { Row("Exchange", 0, "Exchanged from SEK", MaxAmount, -MaxFee, "DOGE"),
      Row("Exchange", 0, "Exchanged to DOGE DOGE Vault", -MaxAmount, 0, "SEK"),
      Row("Exchange", 0, "Exchanged from DOGE", MaxAmount + 1, 0, "EOS"),
      Row("Exchange", 0, "Exchanged to EOS", -MaxAmount - 1, -MaxFee, "DOGE") }

\* The fixture's leg shapes and one leg that is not an Exchange.
FixtureLegs ==
    ExchangeLegShapes \cup {Row("Transfer", 0, "To DOGE wallet", MaxAmount, 0, "DOGE")}

\* Sequences of length n over S.
SeqsOfLen(S, n) == [1..n -> S]

NewestFirst(rs) ==
    \A k \in 1..(Len(rs) - 1) : rs[k].started_date >= rs[k + 1].started_date

Start(ledger, cur) ==
    /\ currency = cur
    /\ parsed = ledger
    /\ reader = "none"
    /\ rows = <<>>
    /\ pc = "read"
    /\ i = 0
    /\ acc = <<>>
    /\ prev = <<>>
    /\ txns = <<>>

\* Two Exchange legs over the currencies, descriptions, dates, amounts and
\* fees, the newer one first.
InitPair ==
    \E cur \in Currencies :
       \E d1 \in Dates, desc1 \in Descriptions, a1 \in Amounts, f1 \in Fees, c1 \in Currencies :
          \E d2 \in Dates, desc2 \in Descriptions, a2 \in Amounts, f2 \in Fees, c2 \in Currencies :
             /\ d1 >= d2
             /\ Start(<<Row("Exchange", d1, desc1, a1, f1, c1),
                        Row("Exchange", d2, desc2, a2, f2, c2)>>, cur)

\* One exchange from s to d: a leg in s "Exchanged to d" and a leg in d
\* "Exchanged from s", in either order (sFirst), both dated `date`.
ExchangeLegs(s, d, sFirst, date) ==
    LET sLeg == Row("Exchange", date, ExchangedToDesc(d), -MaxAmount, -MaxFee, s)
        dLeg == Row("Exchange", date, ExchangedFromDesc(s), MaxAmount, 0, d)
    IN  IF sFirst THEN <<sLeg, dLeg>> ELSE <<dLeg, sLeg>>

ExchangeShapes ==
    {<<s, d, f>> : s \in Currencies, d \in Currencies, f \in BOOLEAN}

RECURSIVE Flatten(_)
Flatten(ss) == IF ss = <<>> THEN <<>> ELSE Head(ss) \o Flatten(Tail(ss))

Shapes == {x \in ExchangeShapes : x[1] # x[2]}

\* Ledgers of up to MaxExchanges exchanges between different currencies,
\* newest first: the k-th exchange of n is dated n + 1 - k.
InitLedger ==
    \E n \in 0..MaxExchanges :
       \E xs \in SeqsOfLen(Shapes, n), cur \in Currencies :
          Start(Flatten([k \in 1..n |->
                           ExchangeLegs(xs[k][1], xs[k][2], xs[k][3], n + 1 - k)]), cur)

\* Ledgers of up to MaxLen fixture legs, newest first: the two legs of the
\* j-th oldest pair are dated j.
InitSeq ==
    \E n \in 0..MaxLen :
       \E legs \in SeqsOfLen(FixtureLegs, n), cur \in Currencies :
          Start([k \in 1..n |-> [legs[k] EXCEPT !.started_date = (n - k) \div 2 + 1]], cur)

\* Ledgers of up to MaxLen Exchange legs of the fixture with any dates that
\* are newest-first.
InitDated ==
    \E n \in 0..MaxLen :
       \E legs \in SeqsOfLen(ExchangeLegShapes, n), ds \in SeqsOfLen(Dates, n),
          cur \in Currencies :
          /\ \A k \in 1..(n - 1) : ds[k] >= ds[k + 1]
          /\ Start([k \in 1..n |-> [legs[k] EXCEPT !.started_date = ds[k]]], cur)

Init == InitSeq

(***************************************************************************)
(* Actions.                                                                *)
(***************************************************************************)
ReadExchanges ==
    /\ pc = "read"
    /\ rows' = read_exchanges(parsed)
    /\ reader' = "read_exchanges"
    /\ pc' = "fold"
    /\ UNCHANGED <<currency, parsed, i, acc, prev, txns>>

ReadExchangesInCurrency ==
    /\ pc = "read"
    /\ rows' = read_exchanges_in_currency(parsed, currency)
    /\ reader' = "read_exchanges_in_currency"
    /\ pc' = "fold"
    /\ UNCHANGED <<currency, parsed, i, acc, prev, txns>>

\* One iteration of the fold of to_transactions.
Fold ==
    /\ pc = "fold"
    /\ i < Len(rows)
    /\ LET st == FoldStep([acc |-> acc, prev |-> prev], RevNth(rows, i), currency)
       IN  /\ acc' = st.acc
           /\ prev' = st.prev
    /\ i' = i + 1
    /\ UNCHANGED <<currency, parsed, reader, rows, pc, txns>>

\* The fold is over: Ok(txns), the pending leg (if any) is discarded.
Return ==
    /\ pc = "fold"
    /\ i = Len(rows)
    /\ txns' = FoldResult([acc |-> acc, prev |-> prev])
    /\ pc' = "done"
    /\ UNCHANGED <<currency, parsed, reader, rows, i, acc, prev>>

Next == ReadExchanges \/ ReadExchangesInCurrency \/ Fold \/ Return

Spec == Init /\ [][Next]_vars

SpecPair == InitPair /\ [][Next]_vars

SpecDated == InitDated /\ [][Next]_vars

SpecLedger == InitLedger /\ [][Next]_vars

TypeOK ==
    /\ pc \in {"read", "fold", "done"}
    /\ i \in 0..Len(rows)
    /\ Len(prev) <= 1

(***************************************************************************)
(* Vocabulary of the properties.  The j-th Transaction (j from 1) is       *)
(* compared with the legs at positions 2j-1 (older) and 2j (newer) of the  *)
(* reversed input, which are positions n+2-2j and n+1-2j of the input.     *)
(***************************************************************************)
Reversed(rs) == [k \in 1..Len(rs) |-> rs[Len(rs) + 1 - k]]

Older(j) == rows[Len(rows) + 2 - 2 * j]
Newer(j) == rows[Len(rows) + 1 - 2 * j]

Sum(leg) == leg.amount + leg.fee

PaidLeg(leg) == Rule1Matches(leg, currency) \/ Rule2Matches(leg, currency)
ExchangedLeg(leg) == Rule3Matches(leg, currency) \/ Rule4Matches(leg, currency)
IsVault(leg) == Contains(leg.description, "Vault")

\* A leg in the target currency whose description has `marker` and not the target code.
TargetLeg(leg, marker) ==
    /\ leg.currency = currency
    /\ Contains(leg.description, marker)
    /\ ~Contains(leg.description, currency)

\* A leg in another currency whose description has `marker` and the target code.
CounterLeg(leg, marker) ==
    /\ leg.currency # currency
    /\ Contains(leg.description, marker)
    /\ Contains(leg.description, currency)

BuyPair(a, b) == TargetLeg(a, "Exchanged from") /\ CounterLeg(b, "Exchanged to")
SellPair(a, b) == TargetLeg(a, "Exchanged to") /\ CounterLeg(b, "Exchanged from")

\* C1: a pair of one target-currency leg and one complementary counter leg
\* yields exactly one Transaction, Buy when the target leg is "Exchanged from",
\* Sell when it is "Exchanged to", whichever of the two legs is the older.
C1_TypeFromTargetLeg ==
    /\ \A j \in 1..Len(acc) :
          /\ (BuyPair(Older(j), Newer(j)) \/ BuyPair(Newer(j), Older(j)))
                => acc[j].type = "Buy"
          /\ (SellPair(Older(j), Newer(j)) \/ SellPair(Newer(j), Older(j)))
                => acc[j].type = "Sell"
    /\ (pc = "done" /\ Len(rows) = 2
          /\ \/ BuyPair(rows[1], rows[2]) \/ BuyPair(rows[2], rows[1])
             \/ SellPair(rows[1], rows[2]) \/ SellPair(rows[2], rows[1]))
       => Len(txns) = 1 /\ txns = acc

C1_Witness ==
    /\ pc = "done"
    /\ Len(txns) = 1
    /\ SellPair(Newer(1), Older(1))
    /\ txns[1].type = "Sell"

C1_WitnessBuyOlder ==
    /\ pc = "done"
    /\ Len(txns) = 1
    /\ BuyPair(Older(1), Newer(1))
    /\ txns[1].type = "Buy"

\* C2: paid_amount is amount + fee of the leg that wrote the paid side (the
\* last leg of the pair matching rule 1 or 2), exchanged_amount is amount + fee
\* of the leg that wrote the exchanged side (the last leg matching rule 3 or
\* 4); a side no leg wrote keeps the value Transaction::new() gave it.
C2_AmountsAreLegSums ==
    \A j \in 1..Len(acc) :
       /\ acc[j].paid_amount =
             IF PaidLeg(Newer(j)) THEN Sum(Newer(j))
             ELSE IF PaidLeg(Older(j)) THEN Sum(Older(j))
             ELSE TransactionNew.paid_amount
       /\ acc[j].exchanged_amount =
             IF ExchangedLeg(Newer(j)) THEN Sum(Newer(j))
             ELSE IF ExchangedLeg(Older(j)) THEN Sum(Older(j))
             ELSE TransactionNew.exchanged_amount

C2_Witness ==
    /\ pc = "done"
    /\ Len(txns) = 1
    /\ PaidLeg(Older(1)) /\ ~PaidLeg(Newer(1))
    /\ ExchangedLeg(Newer(1)) /\ ~ExchangedLeg(Older(1))
    /\ Older(1).fee # 0 /\ Newer(1).fee # 0
    /\ txns[1].paid_amount = Sum(Older(1)) /\ txns[1].paid_amount < 0
    /\ txns[1].exchanged_amount = Sum(Newer(1)) /\ txns[1].exchanged_amount > 0

\* C3: after k legs the output holds floor(k/2) Transactions and a leg is
\* pending exactly when k is odd; n legs yield floor(n/2) Transactions.
C3_FoldCounts ==
    /\ Len(acc) = i \div 2
    /\ (prev # <<>>) <=> (i % 2 = 1)
    /\ pc = "done" => Len(txns) = Len(rows) \div 2

C3_Witness ==
    /\ pc = "done"
    /\ Len(rows) = 3
    /\ Len(txns) = 1
    /\ prev # <<>>

\* C4 as stated: every Transaction's date is the date of the older leg of its
\* pair, also when the two legs carry different dates.
C4_DateOfOlderLeg ==
    \A j \in 1..Len(acc) : acc[j].date = Older(j).started_date

\* C4 amended: the date is the date of the last leg of the pair, in processing
\* order, that matches rule 1 or 2; it is the older leg's date when that leg is
\* the older one or when both legs carry the same date; with no such leg the
\* date is the one Transaction::new() gave.
C4_DateOfPaidLeg ==
    \A j \in 1..Len(acc) :
       /\ acc[j].date =
             IF PaidLeg(Newer(j)) THEN Newer(j).started_date
             ELSE IF PaidLeg(Older(j)) THEN Older(j).started_date
             ELSE TransactionNew.date
       /\ ( /\ PaidLeg(Older(j)) \/ PaidLeg(Newer(j))
            /\ Older(j).started_date = Newer(j).started_date )
          => acc[j].date = Older(j).started_date

C4_Witness ==
    /\ pc = "done"
    /\ Len(txns) = 1
    /\ PaidLeg(Newer(1)) /\ ~PaidLeg(Older(1))
    /\ Newer(1).started_date # Older(1).started_date
    /\ txns[1].date = Newer(1).started_date

\* C5: a Transaction's is_vault is true exactly when one of the two legs of
\* its own pair has "Vault" in its description, and apart from is_vault the
\* Transaction is what the four rules alone make of the two legs.
C5_VaultFlag ==
    \A j \in 1..Len(acc) :
       /\ acc[j].is_vault <=> (IsVault(Older(j)) \/ IsVault(Newer(j)))
       /\ [acc[j] EXCEPT !.is_vault = FALSE] =
             ApplyRules(Newer(j), ApplyRules(Older(j), TransactionNew, currency), currency)

C5_Witness ==
    /\ pc = "done"
    /\ Len(txns) = 2
    /\ txns[1].is_vault
    /\ ~txns[2].is_vault
    /\ IsVault(Older(1)) /\ ~IsVault(Newer(1))

\* The dates of xs never decrease.
NonDecreasing(xs) ==
    \A j \in 1..Len(xs), k \in 1..Len(xs) : j < k => xs[j].date <= xs[k].date

PairTransaction(older, newer) ==
    to_transaction(newer, <<to_transaction(older, <<>>, currency)>>, currency)

\* C6 as stated: for a newest-first input the dates of the output never
\* decrease and the k-th Transaction is built from the k-th pair of the
\* reversed input.
C6_ChronologicalOutput ==
    LET rev == Reversed(rows) IN
    NewestFirst(rows) =>
       /\ NonDecreasing(acc)
       /\ \A k \in 1..Len(acc) : acc[k] = PairTransaction(rev[2 * k - 1], rev[2 * k])

\* C6 amended: for a newest-first input the dates of those Transactions whose
\* pair has a leg matching rule 1 or 2 never decrease (any other Transaction
\* keeps the date of Transaction::new()), and the k-th Transaction is built
\* from the k-th pair of the reversed input.
C6_ChronologicalDatedOutput ==
    LET rev == Reversed(rows) IN
    NewestFirst(rows) =>
       /\ \A j \in 1..Len(acc), k \in 1..Len(acc) :
             ( /\ j < k
               /\ PaidLeg(Older(j)) \/ PaidLeg(Newer(j))
               /\ PaidLeg(Older(k)) \/ PaidLeg(Newer(k)) )
             => acc[j].date <= acc[k].date
       /\ \A k \in 1..Len(acc) :
             /\ acc[k] = PairTransaction(rev[2 * k - 1], rev[2 * k])
             /\ ~(PaidLeg(rev[2 * k - 1]) \/ PaidLeg(rev[2 * k]))
                   => acc[k].date = TransactionNew.date

C6_Witness ==
    /\ pc = "done"
    /\ Len(txns) = 2
    /\ PaidLeg(Older(1)) /\ PaidLeg(Older(2))
    /\ txns[1].date < txns[2].date

\* The legs the currency-scoped filter is to keep.
Keep(leg) ==
    /\ leg.type = "Exchange"
    /\ leg.currency = currency \/ Contains(leg.description, currency)

KeptPositions == {k \in 1..Len(parsed) : Keep(parsed[k])}

\* The position in `parsed` of the m-th kept leg.
KeptPosition(m) ==
    CHOOSE k \in KeptPositions : Cardinality({x \in KeptPositions : x <= k}) = m

\* C7: read_exchanges_in_currency returns the legs with kind Exchange and
\* (currency = target or description containing the target code), each once
\* and in their original order.
C7_CurrencyFilter ==
    reader = "read_exchanges_in_currency" =>
       /\ Len(rows) = Cardinality(KeptPositions)
       /\ \A m \in 1..Len(rows) : rows[m] = parsed[KeptPosition(m)]

C7_Witness ==
    /\ reader = "read_exchanges_in_currency"
    /\ Len(parsed) = 4
    /\ Len(rows) = 2
    /\ \E k \in 1..Len(rows) :
          rows[k].currency # currency /\ Contains(rows[k].description, currency)
    /\ \E k \in 1..Len(parsed) :
          /\ parsed[k].type = "Exchange"
          /\ parsed[k].currency # currency
          /\ ~Contains(parsed[k].description, currency)
    /\ \E k \in 1..Len(parsed) : parsed[k].type # "Exchange"

\* C8 as stated: to_transaction applies only the first matching rule.
C8_FirstMatchOnly ==
    \A j \in 1..Len(acc) :
       acc[j] = to_transaction_first_match(Newer(j),
                   <<to_transaction_first_match(Older(j), <<>>, currency)>>, currency)

\* The type the highest-numbered rule matching the leg writes.
LastRuleType(leg) ==
    IF Rule4Matches(leg, currency) THEN "Buy"
    ELSE IF Rule3Matches(leg, currency) THEN "Sell"
    ELSE IF Rule2Matches(leg, currency) THEN "Sell"
    ELSE "Buy"

\* C8 amended: to_transaction applies every matching rule, in the order 1, 2,
\* 3, 4: a leg matching rule 1 or 2 writes the paid side and the date, a leg
\* matching rule 3 or 4 writes the exchanged side (also when it matched rule 1
\* or 2), and the type is the one of the highest-numbered matching rule.
C8_EveryMatchingRule ==
    \A j \in 1..Len(acc) :
       /\ PaidLeg(Newer(j)) =>
             /\ acc[j].paid_amount = Sum(Newer(j))
             /\ acc[j].paid_currency = currency
             /\ acc[j].date = Newer(j).started_date
       /\ ExchangedLeg(Newer(j)) =>
             /\ acc[j].exchanged_amount = Sum(Newer(j))
             /\ acc[j].exchanged_currency = Newer(j).currency
       /\ (PaidLeg(Newer(j)) \/ ExchangedLeg(Newer(j)))
             => acc[j].type = LastRuleType(Newer(j))
       /\ (~PaidLeg(Newer(j)) /\ ~ExchangedLeg(Newer(j))
             /\ (PaidLeg(Older(j)) \/ ExchangedLeg(Older(j))))
             => acc[j].type = LastRuleType(Older(j))
       /\ (~ExchangedLeg(Newer(j)) /\ ExchangedLeg(Older(j))) =>
             /\ acc[j].exchanged_amount = Sum(Older(j))
             /\ acc[j].exchanged_currency = Older(j).currency

C8_Witness ==
    /\ pc = "done"
    /\ Len(txns) = 1
    /\ Rule1Matches(Newer(1), currency) /\ Rule3Matches(Newer(1), currency)
    /\ txns[1].type = "Sell"
    /\ txns[1].paid_amount = Sum(Newer(1))
    /\ txns[1].exchanged_amount = Sum(Newer(1))
    /\ txns[1].exchanged_currency = currency

\* The legs a caller may put in front of the input: any Exchange leg of the
\* fixture, dated after every leg of the input.
NewerLegs == {[leg EXCEPT !.started_date = MaxLen] : leg \in ExchangeLegShapes}

\* C9: with n legs rows[0..n-1], the j-th Transaction (j from 0) is built from
\* rows[n-1-2j] (older) and rows[n-2-2j] (newer), so for odd n only rows[0]
\* is left out; one more leg in front of an even-length input changes nothing
\* and two more legs in front only append one Transaction (inputs of at most
\* MaxLen legs, the added ones included).
C9_PairsFromTheEnd ==
    LET n == Len(rows) IN
    /\ \A j \in 0..(Len(acc) - 1) :
          acc[j + 1] = PairTransaction(rows[(n - 1 - 2 * j) + 1], rows[(n - 2 - 2 * j) + 1])
    /\ pc = "done" =>
          /\ Len(txns) = n \div 2
          /\ txns = acc
          /\ n % 2 = 1 =>
                \A k \in 2..n : \E j \in 0..(Len(txns) - 1) :
                   k = (n - 1 - 2 * j) + 1 \/ k = (n - 2 - 2 * j) + 1
          /\ (n % 2 = 0 /\ n + 1 <= MaxLen) =>
                \A r \in NewerLegs : to_transactions(<<r>> \o rows, currency) = txns
          /\ n + 2 <= MaxLen =>
                \A r1 \in NewerLegs, r2 \in NewerLegs :
                   LET more == to_transactions(<<r1, r2>> \o rows, currency)
                   IN  /\ Len(more) = Len(txns) + 1
                       /\ SubSeq(more, 1, Len(txns)) = txns

C9_Witness ==
    /\ pc = "done"
    /\ Len(rows) = 3
    /\ Len(txns) = 1
    /\ rows[1] # rows[2] /\ rows[2] # rows[3] /\ rows[1] # rows[3]
    /\ txns[1] = PairTransaction(rows[3], rows[2])
    /\ txns[1] # PairTransaction(rows[2], rows[1])

C9_WitnessEven ==
    /\ pc = "done"
    /\ Len(rows) = 4
    /\ Len(txns) = 2
    /\ txns[1] # txns[2]

\* Leg a and leg b are the two legs of one exchange from s to d.
ExchangeFromTo(a, b, s, d) ==
    \/ /\ a.currency = s /\ a.description = ExchangedToDesc(d)
       /\ b.currency = d /\ b.description = ExchangedFromDesc(s)
    \/ /\ b.currency = s /\ b.description = ExchangedToDesc(d)
       /\ a.currency = d /\ a.description = ExchangedFromDesc(s)

\* rs is a sequence of two-leg exchanges between different currencies.
WellFormed(rs) ==
    /\ Len(rs) % 2 = 0
    /\ \A k \in 1..(Len(rs) \div 2) :
          /\ rs[2 * k - 1].type = "Exchange" /\ rs[2 * k].type = "Exchange"
          /\ \E s \in Currencies, d \in Currencies :
                s # d /\ ExchangeFromTo(rs[2 * k - 1], rs[2 * k], s, d)

\* The exchanges (pair positions) of rs that involve the target currency.
Involved(rs) ==
    {k \in 1..(Len(rs) \div 2) :
        \E s \in Currencies, d \in Currencies :
           /\ s # d /\ (s = currency \/ d = currency)
           /\ ExchangeFromTo(rs[2 * k - 1], rs[2 * k], s, d)}

\* C10: on a ledger of well-formed two-leg exchanges the currency-scoped
\* filter keeps both legs of an exchange or neither, both exactly when the
\* exchange involves the target, and to_transactions then yields one
\* Transaction per exchange involving the target, Buy when the target is the
\* destination and Sell when it is the source.
C10_WellFormedLedger ==
    (reader = "read_exchanges_in_currency" /\ WellFormed(parsed)) =>
       /\ \A k \in 1..(Len(parsed) \div 2) :
             /\ (2 * k - 1 \in KeptPositions) <=> (2 * k \in KeptPositions)
             /\ (2 * k \in KeptPositions) <=> (k \in Involved(parsed))
       /\ WellFormed(rows)
       /\ Involved(rows) = 1..(Len(rows) \div 2)
       /\ Len(rows) = 2 * Cardinality(Involved(parsed))
       /\ \A j \in 1..Len(acc) :
             \E s \in Currencies, d \in Currencies :
                /\ s # d
                /\ ExchangeFromTo(Older(j), Newer(j), s, d)
                /\ d = currency => acc[j].type = "Buy"
                /\ s = currency => acc[j].type = "Sell"
                /\ acc[j].paid_currency = currency
                /\ acc[j].exchanged_currency = (IF d = currency THEN s ELSE d)
       /\ pc = "done" =>
             /\ Len(txns) = Cardinality(Involved(parsed))
             /\ txns = acc

C10_Witness ==
    /\ pc = "done"
    /\ reader = "read_exchanges_in_currency"
    /\ WellFormed(parsed)
    /\ Len(parsed) = 4
    /\ Len(rows) = 2
    /\ Len(txns) = 1
    /\ txns[1].type = "Sell"
    /\ Newer(1).currency = currency

C10_WitnessBuy ==
    /\ pc = "done"
    /\ reader = "read_exchanges_in_currency"
    /\ WellFormed(parsed)
    /\ Len(txns) = 2
    /\ txns[1].type = "Buy"
    /\ txns[2].type = "Sell"

====
